---- MODULE Spec2Model ----
(***************************************************************************)
(* Model of backend/s3/s3_aws_signing_helper_credentials.go: the           *)
(* awsSigningHelperProvider, a credentials provider that first obtains a   *)
(* session token with an HTTP PUT on /latest/api/token and then hands the  *)
(* token to an endpoint-credentials provider which fetches the keys.       *)
(*                                                                         *)
(* Each worker is a goroutine calling Retrieve / RetrieveWithContext on    *)
(* the one shared provider.  pc[w] is the worker's position in the code.   *)
(* The string field awsCredsProvider.AuthorizationToken is shared and is   *)
(* written and read without synchronisation; a Go string is two machine    *)
(* words (data pointer, length), so it is modelled as two words that are   *)
(* stored and loaded one at a time.                                        *)
(***************************************************************************)
EXTENDS Naturals, FiniteSets

\* ------------------------------------------------------------- bounds
NumWorkers == 2
MaxToken == 2

Workers == 1..NumWorkers
\* Token bodies: 0 is the empty string, 1..MaxToken are distinct non-empty strings.
Tokens == 0..MaxToken

\* ------------------------------------------------------------- constants
StatusOK == 200
Statuses == {StatusOK, 403, 500}
\* http.DefaultClient has Timeout 0: the client itself sets no deadline.
httpClientTimeout == 0
providerName == "AWSSigningHelperCredentialsEndpointProvider"
innerProviderName == "CredentialsEndpointProvider"

CtxKinds == {"nil", "background", "deadline"}

VARIABLES
    pc,         \* pc[w]: position of worker w in RetrieveWithContext / receiveToken
    via,        \* via[w]: the entry point of the current call
    ctx,        \* ctx[w]: the context of the current call
    puts,       \* puts[w]: token PUT requests issued by the current call
    resp,       \* resp[w]: what httpClient.Do got from the token endpoint
    token,      \* token[w]: the local variable token of RetrieveWithContext
                \* (NoWord until receiveToken has returned it)
    loaded,     \* loaded[w]: words of AuthorizationToken the inner provider has read
    result,     \* result[w]: what the call returned
    authToken,  \* p.awsCredsProvider.AuthorizationToken, as (data, len) words
    panicked,   \* an unrecovered panic has terminated the process
    prevToken   \* history: the token obtained by the latest call whose credentials
                \* fetch has returned (NoWord before the first)

vars == <<pc, via, ctx, puts, resp, token, loaded, result, authToken, panicked, prevToken>>

NoWord == MaxToken + 1
NoResp == [kind |-> "none", status |-> 0, body |-> 0]
NoResult == [kind |-> "none", provider |-> "", cause |-> "", hasKeys |-> FALSE]
NoLoad == [data |-> NoWord, len |-> NoWord]

\* A string value as its two words: both belong to the same string.
StringWords(t) == [data |-> t, len |-> t]

TypeOK ==
    /\ pc \in [Workers -> {"idle", "parse", "newreq", "do", "await", "status", "read",
                           "store", "store_data", "store_len",
                           "inner", "load_data", "load_len", "fetch", "done", "panic"}]
    /\ via \in [Workers -> {"", "Retrieve", "RetrieveWithContext"}]
    /\ ctx \in [Workers -> CtxKinds \cup {""}]
    /\ puts \in [Workers -> Nat]
    /\ resp \in [Workers -> [kind : {"none", "resp", "fail", "deadline"},
                             status : Statuses \cup {0}, body : Tokens]]
    /\ token \in [Workers -> Tokens \cup {NoWord}]
    /\ loaded \in [Workers -> [data : Tokens \cup {NoWord}, len : Tokens \cup {NoWord}]]
    /\ result \in [Workers -> [kind : {"none", "ok", "error"},
                               provider : {"", providerName, innerProviderName},
                               cause : {"", "env", "newreq", "do", "status", "read", "inner"},
                               hasKeys : BOOLEAN]]
    /\ authToken \in [data : Tokens, len : Tokens]
    /\ panicked \in BOOLEAN
    /\ prevToken \in Tokens \cup {NoWord}

\* httpCredProvider: a fresh provider; the endpoint provider's AuthorizationToken
\* is the empty string and no call is running.
Init ==
    /\ pc = [w \in Workers |-> "idle"]
    /\ via = [w \in Workers |-> ""]
    /\ ctx = [w \in Workers |-> ""]
    /\ puts = [w \in Workers |-> 0]
    /\ resp = [w \in Workers |-> NoResp]
    /\ token = [w \in Workers |-> NoWord]
    /\ loaded = [w \in Workers |-> NoLoad]
    /\ result = [w \in Workers |-> NoResult]
    /\ authToken = StringWords(0)
    /\ panicked = FALSE
    /\ prevToken = NoWord

\* ------------------------------------------------------------- helpers

\* The value of err after p.httpClient.Do(req): nil when a response came back.
DoErr(r) == IF r.kind = "resp" THEN "nil" ELSE r.kind

\* err.Error(): a method call on a nil interface value panics.
ErrorPanics(err) == err = "nil"

\* The error return of RetrieveWithContext (lines 99-102).
ErrorValue(cause) ==
    [kind |-> "error", provider |-> providerName, cause |-> cause, hasKeys |-> FALSE]

\* Entering a call: the worker takes the entry point how with context c.
Enter(w, how, c) ==
    /\ ~panicked
    /\ pc[w] = "idle"
    /\ pc' = [pc EXCEPT ![w] = "parse"]
    /\ via' = [via EXCEPT ![w] = how]
    /\ ctx' = [ctx EXCEPT ![w] = c]
    /\ UNCHANGED <<puts, resp, token, loaded, result, authToken, panicked, prevToken>>

\* receiveToken returns ("", err) and RetrieveWithContext returns the error value.
FailWith(w, cause) ==
    /\ pc' = [pc EXCEPT ![w] = "done"]
    /\ result' = [result EXCEPT ![w] = ErrorValue(cause)]

\* ------------------------------------------------------------- actions

\* Retrieve(): RetrieveWithContext(aws.BackgroundContext()).
Retrieve(w) == Enter(w, "Retrieve", "background")

\* RetrieveWithContext(ctx) with a context of the caller's choice.
RetrieveWithContext(w, c) == Enter(w, "RetrieveWithContext", c)

\* receiveToken, url.Parse(os.Getenv(...)): the environment is read on every call.
ParseURL(w, ok) ==
    /\ ~panicked
    /\ pc[w] = "parse"
    /\ IF ok
         THEN pc' = [pc EXCEPT ![w] = "newreq"] /\ UNCHANGED result
         ELSE FailWith(w, "env")
    /\ UNCHANGED <<via, ctx, puts, resp, token, loaded, authToken, panicked, prevToken>>

\* receiveToken, http.NewRequestWithContext: fails for a nil context.
NewRequest(w) ==
    /\ ~panicked
    /\ pc[w] = "newreq"
    /\ IF ctx[w] = "nil"
         THEN FailWith(w, "newreq")
         ELSE pc' = [pc EXCEPT ![w] = "do"] /\ UNCHANGED result
    /\ UNCHANGED <<via, ctx, puts, resp, token, loaded, authToken, panicked, prevToken>>

\* receiveToken, p.httpClient.Do(req): the PUT request goes out.
SendPut(w) ==
    /\ ~panicked
    /\ pc[w] = "do"
    /\ pc' = [pc EXCEPT ![w] = "await"]
    /\ puts' = [puts EXCEPT ![w] = @ + 1]
    /\ UNCHANGED <<via, ctx, resp, token, loaded, result, authToken, panicked, prevToken>>

\* The token endpoint answers with a status and a body.
EndpointAnswers(w, s, b) ==
    /\ ~panicked
    /\ pc[w] = "await"
    /\ resp[w].kind = "none"
    /\ resp' = [resp EXCEPT ![w] = [kind |-> "resp", status |-> s, body |-> b]]
    /\ UNCHANGED <<pc, via, ctx, puts, token, loaded, result, authToken, panicked, prevToken>>

\* The transport fails (connection refused, reset, ...).
TransportFails(w) ==
    /\ ~panicked
    /\ pc[w] = "await"
    /\ resp[w].kind = "none"
    /\ resp' = [resp EXCEPT ![w] = [NoResp EXCEPT !.kind = "fail"]]
    /\ UNCHANGED <<pc, via, ctx, puts, token, loaded, result, authToken, panicked, prevToken>>

\* A deadline ends the wait for the response.  Only the context can carry one:
\* the client has no Timeout, and the transport bounds the dial and the TLS
\* handshake (failures of TransportFails) but not the wait for the answer.
DeadlineExpires(w) ==
    /\ ~panicked
    /\ pc[w] = "await"
    /\ resp[w].kind = "none"
    /\ ctx[w] = "deadline" \/ httpClientTimeout > 0
    /\ resp' = [resp EXCEPT ![w] = [NoResp EXCEPT !.kind = "deadline"]]
    /\ UNCHANGED <<pc, via, ctx, puts, token, loaded, result, authToken, panicked, prevToken>>

\* p.httpClient.Do(req) returns (lines 125-128): there is no second attempt.
DoReturns(w) ==
    /\ ~panicked
    /\ pc[w] = "await"
    /\ resp[w].kind # "none"
    /\ IF DoErr(resp[w]) # "nil"
         THEN FailWith(w, "do")
         ELSE pc' = [pc EXCEPT ![w] = "status"] /\ UNCHANGED result
    /\ UNCHANGED <<via, ctx, puts, resp, token, loaded, authToken, panicked, prevToken>>

\* CheckStatus without the comparison of the status code: every response is read.
CheckStatusUnchecked(w) ==
    /\ ~panicked
    /\ pc[w] = "status"
    /\ pc' = [pc EXCEPT ![w] = "read"]
    /\ UNCHANGED <<via, ctx, puts, resp, token, loaded, result, authToken, panicked, prevToken>>

\* receiveToken, lines 133-135: the status check.  The error message is built
\* with err.Error(), and err is the nil error of the successful Do.
CheckStatus(w) ==
    /\ ~panicked
    /\ pc[w] = "status"
    /\ IF resp[w].status # StatusOK
         THEN IF ErrorPanics(DoErr(resp[w]))
                THEN /\ pc' = [pc EXCEPT ![w] = "panic"]
                     /\ panicked' = TRUE
                     /\ UNCHANGED result
                ELSE FailWith(w, "status") /\ UNCHANGED panicked
         ELSE pc' = [pc EXCEPT ![w] = "read"] /\ UNCHANGED <<result, panicked>>
    /\ UNCHANGED <<via, ctx, puts, resp, token, loaded, authToken, prevToken>>

\* receiveToken, lines 137-142: io.ReadAll, then back in RetrieveWithContext.
ReadBody(w, ok) ==
    /\ ~panicked
    /\ pc[w] = "read"
    /\ IF ok
         THEN /\ token' = [token EXCEPT ![w] = resp[w].body]
              /\ pc' = [pc EXCEPT ![w] = "store"]
              /\ UNCHANGED result
         ELSE FailWith(w, "read") /\ UNCHANGED token
    /\ UNCHANGED <<via, ctx, puts, resp, loaded, authToken, panicked, prevToken>>

Words == {"data", "len"}
Other(k) == IF k = "data" THEN "len" ELSE "data"
\* The position at which word k is still to be stored / loaded.
StorePc(k) == IF k = "data" THEN "store_data" ELSE "store_len"
LoadPc(k) == IF k = "data" THEN "load_data" ELSE "load_len"

\* Line 103, p.awsCredsProvider.AuthorizationToken = token: an unsynchronised
\* store of a two-word string; the first of the two word stores.
StoreFirstWord(w, k) ==
    /\ ~panicked
    /\ pc[w] = "store"
    /\ authToken' = [authToken EXCEPT ![k] = token[w]]
    /\ pc' = [pc EXCEPT ![w] = StorePc(Other(k))]
    /\ UNCHANGED <<via, ctx, puts, resp, token, loaded, result, panicked, prevToken>>

\* Line 103, the second word store.
StoreSecondWord(w) ==
    /\ ~panicked
    /\ \E k \in Words :
         /\ pc[w] = StorePc(k)
         /\ authToken' = [authToken EXCEPT ![k] = token[w]]
    /\ pc' = [pc EXCEPT ![w] = "inner"]
    /\ UNCHANGED <<via, ctx, puts, resp, token, loaded, result, panicked, prevToken>>

\* Line 104, p.awsCredsProvider.RetrieveWithContext(ctx): the inner provider
\* reads its AuthorizationToken field for the Authorization header; first word.
LoadFirstWord(w, k) ==
    /\ ~panicked
    /\ pc[w] = "inner"
    /\ loaded' = [loaded EXCEPT ![w][k] = authToken[k]]
    /\ pc' = [pc EXCEPT ![w] = LoadPc(Other(k))]
    /\ UNCHANGED <<via, ctx, puts, resp, token, result, authToken, panicked, prevToken>>

\* Line 104, the second word load; the credentials request goes out with the
\* token that was read.
LoadSecondWord(w) ==
    /\ ~panicked
    /\ \E k \in Words :
         /\ pc[w] = LoadPc(k)
         /\ loaded' = [loaded EXCEPT ![w][k] = authToken[k]]
    /\ pc' = [pc EXCEPT ![w] = "fetch"]
    /\ UNCHANGED <<via, ctx, puts, resp, token, result, authToken, panicked, prevToken>>

\* Line 104, the inner provider returns: credentials, or its own error.
InnerReturns(w, ok) ==
    /\ ~panicked
    /\ pc[w] = "fetch"
    /\ pc' = [pc EXCEPT ![w] = "done"]
    /\ result' = [result EXCEPT ![w] =
                    [kind |-> IF ok THEN "ok" ELSE "error",
                     provider |-> innerProviderName,
                     cause |-> IF ok THEN "" ELSE "inner",
                     hasKeys |-> ok]]
    /\ UNCHANGED <<via, ctx, puts, resp, token, loaded, authToken, panicked>>
    /\ prevToken' = token[w]

\* The caller has the result; the locals of the call are gone and the worker
\* may call again.
Finish(w) ==
    /\ ~panicked
    /\ pc[w] = "done"
    /\ pc' = [pc EXCEPT ![w] = "idle"]
    /\ via' = [via EXCEPT ![w] = ""]
    /\ ctx' = [ctx EXCEPT ![w] = ""]
    /\ puts' = [puts EXCEPT ![w] = 0]
    /\ resp' = [resp EXCEPT ![w] = NoResp]
    /\ token' = [token EXCEPT ![w] = NoWord]
    /\ loaded' = [loaded EXCEPT ![w] = NoLoad]
    /\ result' = [result EXCEPT ![w] = NoResult]
    /\ UNCHANGED <<authToken, panicked, prevToken>>

\* The steps of the goroutine of worker w once its call has started.
Step(w) ==
    \/ \E ok \in BOOLEAN : ParseURL(w, ok)
    \/ NewRequest(w)
    \/ SendPut(w)
    \/ DeadlineExpires(w)
    \/ DoReturns(w)
    \/ CheckStatus(w)
    \/ \E ok \in BOOLEAN : ReadBody(w, ok)
    \/ \E k \in Words : StoreFirstWord(w, k)
    \/ StoreSecondWord(w)
    \/ \E k \in Words : LoadFirstWord(w, k)
    \/ LoadSecondWord(w)
    \/ \E ok \in BOOLEAN : InnerReturns(w, ok)
    \/ Finish(w)

\* What the token endpoint and the network do to the PUT of worker w.
Network(w) ==
    \/ \E s \in Statuses, b \in Tokens : EndpointAnswers(w, s, b)
    \/ TransportFails(w)

\* A caller starts a call.
Start(w) ==
    \/ Retrieve(w)
    \/ \E c \in CtxKinds : RetrieveWithContext(w, c)

\* Workers call the shared provider concurrently.
Next == \E w \in Workers : Start(w) \/ Step(w) \/ Network(w)

Spec == Init /\ [][Next]_vars

\* The scheduler runs every goroutine that can take a step, and a deadline that
\* is set expires; callers need not call and the endpoint need not answer.
FairSpec == Spec /\ \A w \in Workers : WF_vars(Step(w))

\* Calls that do not overlap: a call starts only when no other call is running.
NoCallRunning == \A v \in Workers : pc[v] = "idle"

SeqStart(w) == NoCallRunning /\ Start(w)

SeqNext == \E w \in Workers : SeqStart(w) \/ Step(w) \/ Network(w)

SeqSpec == Init /\ [][SeqNext]_vars

\* ------------------------------------------------------------- properties

\* The positions of a refresh: from the token PUT to the end of the credentials fetch.
Refreshing == {"await", "status", "read", "store", "store_data", "store_len",
               "inner", "load_data", "load_len", "fetch"}

\* C1: among the workers that share the provider, at most one is refreshing
\* (token PUT followed by the credentials fetch) at any time.
C1_ExclusiveRefresh ==
    Cardinality({w \in Workers : pc[w] \in Refreshing}) <= 1

\* C2: the token PUT of every retrieval, started through Retrieve() or through
\* RetrieveWithContext(ctx), eventually returns, even when the token endpoint
\* never answers (a process that has crashed meanwhile is not counted).
C2_TokenPutReturns ==
    \A w \in Workers : (pc[w] = "await") ~> (pc[w] # "await" \/ panicked)

\* C3: a call reports the failure of its token PUT on a transport error only
\* after the PUT has been attempted again.
C3_TransientPutRetried ==
    \A w \in Workers :
        (pc[w] = "done" /\ result[w].cause = "do" /\ resp[w].kind = "fail")
            => puts[w] > 1

\* C4: once the token endpoint has answered the PUT with a status other than
\* 200 and the status check has run, RetrieveWithContext has returned
\* credentials.Value{ProviderName: providerName} with a non-nil error, and the
\* inner provider was not invoked.
C4_Non200ReturnsError ==
    \A w \in Workers :
        (resp[w].kind = "resp" /\ resp[w].status # StatusOK
            /\ pc[w] \notin {"await", "status"})
            => /\ pc[w] = "done"
               /\ result[w].kind = "error"
               /\ result[w].provider = providerName
               /\ ~result[w].hasKeys
               /\ loaded[w] = NoLoad

\* The inner endpoint-credentials provider has been invoked by the call of w.
InnerInvoked(w) ==
    \/ pc[w] \in {"inner", "load_data", "load_len", "fetch"}
    \/ pc[w] = "done" /\ result[w].provider = innerProviderName

\* C5: in a sequence of non-overlapping calls, the inner provider is invoked
\* only in a call that has issued exactly one token PUT, whose PUT was answered
\* with status 200 and whose body was read completely; at that moment and until
\* the call returns AuthorizationToken is the body of that response, and so is
\* the token the credentials request carries.  No call issues a second PUT.
C5_InnerUsesOwnFreshToken ==
    \A w \in Workers :
        /\ puts[w] <= 1
        /\ pc[w] \in Refreshing => puts[w] = 1
        /\ InnerInvoked(w) =>
             /\ puts[w] = 1
             /\ resp[w].kind = "resp"
             /\ resp[w].status = StatusOK
             /\ token[w] = resp[w].body
             /\ authToken = StringWords(resp[w].body)
             /\ loaded[w].data \in {NoWord, resp[w].body}
             /\ loaded[w].len \in {NoWord, resp[w].body}
             /\ pc[w] \in {"fetch", "done"} => loaded[w] = StringWords(resp[w].body)

\* A later call of a sequence fetches credentials with its own non-empty token,
\* which differs from the non-empty token of the call before.
C5_Witness ==
    \E w \in Workers :
        /\ pc[w] = "fetch"
        /\ resp[w].status = StatusOK
        /\ token[w] # 0
        /\ prevToken \notin {NoWord, 0, token[w]}
        /\ loaded[w] = StringWords(token[w])

\* C6: with calls running concurrently, the credentials request of a call
\* carries the session token that this call obtained from its own token PUT.
C6_RequestCarriesOwnToken ==
    \A w \in Workers :
        (pc[w] = "fetch" \/ (pc[w] = "done" /\ result[w].provider = innerProviderName))
            => loaded[w] = StringWords(token[w])

====
